---- MODULE Spec2Model ----
(***************************************************************************)
(* Narrative state engine of Story-CLI: StoryBuffer (story_buffer.py),      *)
(* GameEngine (game_engine.py) and the part of LLMInterface                 *)
(* (llm_interface.py) that decides the text a turn returns.                 *)
(*                                                                         *)
(* A Python str is modelled as a sequence of one-character strings, so     *)
(* len(), +, slicing, lower() and the `in` substring test are computed as  *)
(* the code computes them.  A dict is a function, a list a sequence.       *)
(***************************************************************************)
EXTENDS Integers, Sequences, FiniteSets, TLC

(***************************************************************************)
(* Bounds of the model.                                                    *)
(***************************************************************************)
\* the number of appending calls (turns and direct appends) in one run
MaxCalls == 2

\* the longest log of the specification of the buffer's queries
MaxLog == 7

(***************************************************************************)
(* String literals of the source.                                          *)
(***************************************************************************)

PlayerPrefix ==
    <<"P","l","a","y","e","r",":"," ">>

AiPrefix ==
    <<"A","I",":"," ">>

ReturncodeText ==
    <<"T","h","e"," ","s","t","o","r","y"," ","c","o","n","t","i","n","u","e","s"," ","w","i","t","h"," ","a","n"," ","u","n","e","x","p","e","c","t","e","d"," ","t","u","r","n"," ","o","f"," ","e","v","e","n","t","s",".",".",".">>

TimeoutText ==
    <<"T","h","e"," ","s","t","o","r","y"," ","c","o","n","t","i","n","u","e","s"," ","w","i","t","h"," ","a"," ","m","o","m","e","n","t"," ","o","f"," ","s","u","s","p","e","n","s","e",".",".",".">>

ExceptionText ==
    <<"T","h","e"," ","s","t","o","r","y"," ","c","o","n","t","i","n","u","e","s"," ","w","i","t","h"," ","a","n"," ","u","n","e","x","p","e","c","t","e","d"," ","d","e","v","e","l","o","p","m","e","n","t",".",".",".">>

EmptyText ==
    <<"T","h","e"," ","s","t","o","r","y"," ","c","o","n","t","i","n","u","e","s"," ","w","i","t","h"," ","a","n"," ","i","n","t","e","r","e","s","t","i","n","g"," ","d","e","v","e","l","o","p","m","e","n","t",".",".",".">>

DefaultFallback ==
    <<"Y","o","u"," ","a","t","t","e","m","p","t"," ","t","o"," ","p","e","r","f","o","r","m"," ","t","h","a","t"," ","a","c","t","i","o","n",".">>

NoStoryYet ==
    <<"N","o"," ","s","t","o","r","y"," ","h","a","s"," ","b","e","e","n"," ","g","e","n","e","r","a","t","e","d"," ","y","e","t",".">>

NoStoryContent ==
    <<"N","o"," ","s","t","o","r","y"," ","c","o","n","t","e","n","t"," ","a","v","a","i","l","a","b","l","e",".">>

Ellipsis ==
    <<".",".",".">>

Space ==
    <<" ">>

Newline ==
    <<"\n">>

KwMove ==
    <<"m","o","v","e">>

KwTalk ==
    <<"t","a","l","k">>

KwFight ==
    <<"f","i","g","h","t">>

KwUse ==
    <<"u","s","e">>

ExMove1 ==
    <<"g","o"," ","n","o","r","t","h">>

ExMove2 ==
    <<"w","a","l","k"," ","t","o"," ","t","h","e"," ","d","o","o","r">>

ExMove3 ==
    <<"e","n","t","e","r"," ","t","h","e"," ","b","u","i","l","d","i","n","g">>

ExTalk1 ==
    <<"s","p","e","a","k"," ","t","o"," ","t","h","e"," ","m","e","r","c","h","a","n","t">>

ExTalk2 ==
    <<"a","s","k"," ","a","b","o","u","t"," ","t","h","e"," ","q","u","e","s","t">>

ExTalk3 ==
    <<"g","r","e","e","t"," ","t","h","e"," ","g","u","a","r","d">>

ExFight1 ==
    <<"a","t","t","a","c","k"," ","t","h","e"," ","e","n","e","m","y">>

ExFight2 ==
    <<"d","e","f","e","n","d"," ","y","o","u","r","s","e","l","f">>

ExFight3 ==
    <<"u","s","e"," ","y","o","u","r"," ","w","e","a","p","o","n">>

ExUse1 ==
    <<"p","i","c","k"," ","u","p"," ","t","h","e"," ","k","e","y">>

ExUse2 ==
    <<"u","s","e"," ","t","h","e"," ","p","o","t","i","o","n">>

ExUse3 ==
    <<"e","x","a","m","i","n","e"," ","t","h","e"," ","m","a","p">>

FbMove ==
    <<"Y","o","u"," ","m","o","v","e"," ","i","n"," ","t","h","a","t"," ","d","i","r","e","c","t","i","o","n",".">>

FbTalk ==
    <<"Y","o","u"," ","a","t","t","e","m","p","t"," ","t","o"," ","c","o","m","m","u","n","i","c","a","t","e",".">>

FbFight ==
    <<"Y","o","u"," ","p","r","e","p","a","r","e"," ","f","o","r"," ","c","o","m","b","a","t",".">>

FbUse ==
    <<"Y","o","u"," ","i","n","t","e","r","a","c","t"," ","w","i","t","h"," ","t","h","e"," ","i","t","e","m",".">>

InGreetGuard ==
    <<"g","r","e","e","t"," ","g","u","a","r","d">>

OutGuardNods ==
    <<"T","h","e"," ","g","u","a","r","d"," ","n","o","d","s",".">>

OutGuardSalutes ==
    <<"T","h","e"," ","g","u","a","r","d"," ","s","a","l","u","t","e","s",".">>

InFindKey ==
    <<"f","i","n","d"," ","t","h","e"," ","k","e","y">>

OutStarted ==
    <<"s","t","a","r","t","e","d">>

InEmpty ==
    <<>>

InBlank ==
    <<" "," "," ">>

InMoveUsePotion ==
    <<"m","o","v","e"," ","a","n","d"," ","u","s","e"," ","t","h","e"," ","p","o","t","i","o","n">>

InShoutGoNorth ==
    <<"G","O"," ","N","O","R","T","H">>

InFightOrTalk ==
    <<"f","i","g","h","t"," ","o","r"," ","t","a","l","k">>

InUseIt ==
    <<"U","s","e"," ","i","t">>

InAskThenGo ==
    <<"a","s","k"," ","a","b","o","u","t"," ","t","h","e"," ","q","u","e","s","t"," ","t","h","e","n"," ","g","o"," ","n","o","r","t","h">>

InXyzzy ==
    <<"x","y","z","z","y">>

OutDoor ==
    <<"A"," ","d","o","o","r"," ","o","p","e","n","s",".">>
(***************************************************************************)
(* Python helpers: str and dict primitives the source relies on.           *)
(***************************************************************************)
\* sub in s  (substring test on str)
StrIn(sub, s) ==
    \E i \in 0..(Len(s) - Len(sub)) : SubSeq(s, i + 1, i + Len(sub)) = sub

\* one character of str.lower()
LowerChar(c) ==
    CASE c = "A" -> "a" [] c = "B" -> "b" [] c = "C" -> "c" [] c = "D" -> "d"
      [] c = "E" -> "e" [] c = "F" -> "f" [] c = "G" -> "g" [] c = "H" -> "h"
      [] c = "I" -> "i" [] c = "J" -> "j" [] c = "K" -> "k" [] c = "L" -> "l"
      [] c = "M" -> "m" [] c = "N" -> "n" [] c = "O" -> "o" [] c = "P" -> "p"
      [] c = "Q" -> "q" [] c = "R" -> "r" [] c = "S" -> "s" [] c = "T" -> "t"
      [] c = "U" -> "u" [] c = "V" -> "v" [] c = "W" -> "w" [] c = "X" -> "x"
      [] c = "Y" -> "y" [] c = "Z" -> "z" [] OTHER -> c

\* str.lower()
Lower(s) ==
    [i \in 1..Len(s) |-> LowerChar(s[i])]

\* s[:n]
Prefix(s, n) ==
    SubSeq(s, 1, IF Len(s) < n THEN Len(s) ELSE n)

\* sep.join(parts)
RECURSIVE Join(_, _)
Join(sep, parts) ==
    IF Len(parts) = 0 THEN <<>>
    ELSE IF Len(parts) = 1 THEN parts[1]
    ELSE parts[1] \o sep \o Join(sep, Tail(parts))

\* lst[-n:]  (Python: lst[-0:] is the whole list)
LastN(lst, n) ==
    IF n = 0 \/ n >= Len(lst) THEN lst
    ELSE SubSeq(lst, Len(lst) - n + 1, Len(lst))

\* d.get(k, default)
DictGet(d, k, default) ==
    IF k \in DOMAIN d THEN d[k] ELSE default

\* d[k] = v
DictSet(d, k, v) ==
    [x \in (DOMAIN d) \cup {k} |-> IF x = k THEN v ELSE d[x]]

\* d.update(u)
DictUpdate(d, u) ==
    [x \in (DOMAIN d) \cup (DOMAIN u) |-> IF x \in DOMAIN u THEN u[x] ELSE d[x]]

(***************************************************************************)
(* config.py                                                               *)
(***************************************************************************)
\* CORE_MECHANICS.keys(), in insertion order
MechanicOrder ==
    <<"move", "talk", "fight", "use">>

\* the str of each key of CORE_MECHANICS
MechanicKeyword ==
    [move |-> KwMove, talk |-> KwTalk, fight |-> KwFight, use |-> KwUse]

\* CORE_MECHANICS[t]["examples"]
CORE_MECHANICS ==
    [move  |-> <<ExMove1, ExMove2, ExMove3>>,
     talk  |-> <<ExTalk1, ExTalk2, ExTalk3>>,
     fight |-> <<ExFight1, ExFight2, ExFight3>>,
     use   |-> <<ExUse1, ExUse2, ExUse3>>]

BASIC_ACTIONS ==
    [move |-> FbMove, talk |-> FbTalk, fight |-> FbFight, use |-> FbUse]

\* MEMORY_TYPES.keys()
MEMORY_TYPES ==
    {"npc_interactions", "quest_progress", "location_discovery", "item_usage"}

(***************************************************************************)
(* story_buffer.py: pure parts                                             *)
(***************************************************************************)
DefaultContextLength == 1024
DefaultChunkSize == 3
DefaultInjectionInterval == 5

\* the dict add_story_segment builds
Segment(text, segment_type, n) ==
    [text |-> text, type |-> segment_type, timestamp |-> n]

\* faulty variant of add_story_segment: list.insert(0, segment)
add_story_segment_front(segs, text, segment_type) ==
    <<Segment(text, segment_type, Len(segs))>> \o segs

\* faulty variant of add_story_segment: timestamps counted from 1
add_story_segment_from_one(segs, text, segment_type) ==
    Append(segs, Segment(text, segment_type, Len(segs) + 1))

\* faulty variant of add_player_action: the counter advances by two
add_player_action_count_twice(count) ==
    count + 2

\* add_player_action: the new value of interaction_count
add_player_action_count(count) ==
    count + 1

\* add_story_segment: the new value of story_segments
add_story_segment(segs, text, segment_type) ==
    Append(segs, Segment(text, segment_type, Len(segs)))

\* the backward scan of _update_context_window, at position i with
\* total_length = total; returns the segments inserted from here on
RECURSIVE WindowScan(_, _, _, _)
WindowScan(segs, i, total, budget) ==
    IF i = 0 THEN <<>>
    ELSE IF total + Len(segs[i].text) <= budget
         THEN WindowScan(segs, i - 1, total + Len(segs[i].text), budget)
                  \o <<segs[i]>>
         ELSE <<>>

\* faulty variant of the scan: `continue` instead of `break`
RECURSIVE WindowScanSkip(_, _, _, _)
WindowScanSkip(segs, i, total, budget) ==
    IF i = 0 THEN <<>>
    ELSE IF total + Len(segs[i].text) <= budget
         THEN WindowScanSkip(segs, i - 1, total + Len(segs[i].text), budget)
                  \o <<segs[i]>>
         ELSE WindowScanSkip(segs, i - 1, total, budget)

update_context_window_skip(segs, budget) ==
    WindowScanSkip(segs, Len(segs), 0, budget)

\* _update_context_window: the new value of context_window
update_context_window(segs, budget) ==
    WindowScan(segs, Len(segs), 0, budget)

\* one entry of context_parts in get_context_for_llm
ContextPart(seg) ==
    IF seg.type = "story" THEN <<seg.text>>
    ELSE IF seg.type = "player_action" THEN <<PlayerPrefix \o seg.text>>
    ELSE IF seg.type = "ai_response" THEN <<AiPrefix \o seg.text>>
    ELSE <<>>

RECURSIVE ContextParts(_)
ContextParts(window) ==
    IF Len(window) = 0 THEN <<>>
    ELSE ContextPart(window[1]) \o ContextParts(Tail(window))

get_context_for_llm(window) ==
    IF Len(window) = 0 THEN <<>> ELSE Join(Newline, ContextParts(window))

\* faulty variant of should_inject_context: the counter value before the
\* increment decides
should_inject_context_before_increment(count, interval) ==
    (count - 1) % interval = 0

\* should_inject_context; the caller guards interval = 0 (ZeroDivisionError)
should_inject_context(count, interval) ==
    count % interval = 0

\* [seg["text"] for seg in story_segments if seg["type"] == "story"]
RECURSIVE StoryParts(_)
StoryParts(segs) ==
    IF Len(segs) = 0 THEN <<>>
    ELSE (IF segs[1].type = "story" THEN <<segs[1].text>> ELSE <<>>)
             \o StoryParts(Tail(segs))

get_recent_story_chunks(segs, num_chunks) ==
    LastN(StoryParts(segs), num_chunks)

\* faulty variant of get_story_summary: a summary of exactly 500 characters
\* is cut as well
get_story_summary_cut_at_500(segs) ==
    IF Len(segs) = 0 THEN NoStoryYet
    ELSE IF Len(StoryParts(segs)) = 0 THEN NoStoryContent
    ELSE LET summary == Join(Space, LastN(StoryParts(segs), 5))
         IN  IF Len(summary) >= 500 THEN Prefix(summary, 500) \o Ellipsis
             ELSE summary

get_story_summary(segs) ==
    IF Len(segs) = 0 THEN NoStoryYet
    ELSE IF Len(StoryParts(segs)) = 0 THEN NoStoryContent
    ELSE LET summary == Join(Space, LastN(StoryParts(segs), 5))
         IN  IF Len(summary) > 500 THEN Prefix(summary, 500) \o Ellipsis
             ELSE summary

\* faulty variant of story_data: the interaction counter is not written
StoryData_no_count(segs, count) ==
    [segments |-> segs, summary |-> get_story_summary(segs)]

\* story_data of save_story
StoryData(segs, count) ==
    [segments |-> segs, interaction_count |-> count,
     summary |-> get_story_summary(segs)]

(***************************************************************************)
(* llm_interface.py: the text generate_story_continuation returns          *)
(***************************************************************************)
\* what subprocess.run did: "ok" (returncode 0, stdout given), "nonzero"
\* (returncode != 0), "timeout" (TimeoutExpired), "error" (other exception)
GenKinds ==
    {"ok", "nonzero", "timeout", "error"}

\* _extract_continuation, for a stdout that is already stripped and
\* contains neither the prompt nor the two markers
extract_continuation(output) ==
    LET continuation == IF Len(output) > 300
                        THEN Prefix(output, 300) \o Ellipsis
                        ELSE output
    IN  IF Len(continuation) > 0 THEN continuation ELSE EmptyText

generate_story_continuation(gen) ==
    IF gen.kind = "nonzero" THEN ReturncodeText
    ELSE IF gen.kind = "timeout" THEN TimeoutText
    ELSE IF gen.kind = "error" THEN ExceptionText
    ELSE extract_continuation(gen.stdout)

(***************************************************************************)
(* game_engine.py: pure parts                                              *)
(***************************************************************************)
\* first loop of _identify_action_type from position i of the key order
RECURSIVE ExamplePass(_, _)
ExamplePass(action, i) ==
    IF i > Len(MechanicOrder) THEN "none"
    ELSE IF \E k \in 1..Len(CORE_MECHANICS[MechanicOrder[i]]) :
               StrIn(CORE_MECHANICS[MechanicOrder[i]][k], action)
         THEN MechanicOrder[i]
         ELSE ExamplePass(action, i + 1)

\* second loop of _identify_action_type
RECURSIVE KeywordPass(_, _)
KeywordPass(action, i) ==
    IF i > Len(MechanicOrder) THEN "unknown"
    ELSE IF StrIn(MechanicKeyword[MechanicOrder[i]], action)
         THEN MechanicOrder[i]
         ELSE KeywordPass(action, i + 1)

\* faulty variant of _identify_action_type: the keyword loop runs first
identify_action_type_keyword_first(player_action) ==
    LET action == Lower(player_action)
        byKeyword == KeywordPass(action, 1)
    IN  IF byKeyword # "unknown" THEN byKeyword
        ELSE IF ExamplePass(action, 1) # "none" THEN ExamplePass(action, 1)
        ELSE "unknown"

identify_action_type(player_action) ==
    LET action == Lower(player_action)
        byExample == ExamplePass(action, 1)
    IN  IF byExample # "none" THEN byExample ELSE KeywordPass(action, 1)

\* the memory category _update_memory writes for an action type
MemoryKey ==
    [talk |-> "npc_interactions", move |-> "location_discovery",
     use |-> "item_usage", investigate |-> "clues_found"]

\* faulty variant of _update_memory: the category is replaced by a dict
\* holding the new entry only
update_memory_replace(mem, action_type, action, response) ==
    IF action_type \in DOMAIN MemoryKey
    THEN [mem EXCEPT ![MemoryKey[action_type]] = DictSet(<<>>, action, response)]
    ELSE mem

\* _update_memory, when the category exists (KeyError otherwise)
update_memory(mem, action_type, action, response) ==
    IF action_type \in DOMAIN MemoryKey
    THEN [mem EXCEPT ![MemoryKey[action_type]] = DictSet(@, action, response)]
    ELSE mem

\* _load_config: the dict returned for a config file that is absent or
\* holds a JSON object (json.load raises for an unparseable file)
load_config(file) ==
    IF file.kind = "absent"
    THEN [context_length |-> DefaultContextLength,
          story_chunk_size |-> DefaultChunkSize,
          context_injection_interval |-> DefaultInjectionInterval]
    ELSE file.data

\* BASIC_ACTIONS.get(action_type, "You attempt to perform that action.")
Fallback(action_type) ==
    DictGet(BASIC_ACTIONS, action_type, DefaultFallback)

\* game_data of save_game
GameData(mg, sg, scene, mem, active, completed, stats) ==
    [main_genre |-> mg, sub_genre |-> sg, current_scene |-> scene,
     memory |-> mem, active_quests |-> active,
     completed_quests |-> completed, player_stats |-> stats]

(***************************************************************************)
(* Inputs of the model.                                                    *)
(***************************************************************************)
\* what the player types (main.py lowers and strips it)
PlayerInputs ==
    {ExMove1, InXyzzy}

\* what the generation backend does on one call
GenOutcomes ==
    {[kind |-> "ok", stdout |-> OutDoor],
     [kind |-> "nonzero", stdout |-> <<>>],
     [kind |-> "timeout", stdout |-> <<>>]}

\* how the program is started: the genres the player picks, what
\* _load_config returns for config/game_config.json (the defaults when the
\* file is absent, its values when present) and what the backend does on
\* generate_initial_scene
Startups ==
    {[main_genre |-> "adventure", sub_genre |-> "fantasy",
      config |-> [context_length |-> 40, context_injection_interval |-> 1],
      gen |-> [kind |-> "ok", stdout |-> OutDoor]],
     [main_genre |-> "mystery", sub_genre |-> "noir",
      config |-> [context_length |-> DefaultContextLength,
                  context_injection_interval |-> 2],
      gen |-> [kind |-> "timeout", stdout |-> <<>>]],
     [main_genre |-> "adventure", sub_genre |-> "noir",
      config |-> [context_length |-> DefaultContextLength,
                  context_injection_interval |-> 0],
      gen |-> [kind |-> "ok", stdout |-> OutDoor]]}

\* the action types _update_memory is called with
ActionTypes ==
    {"move", "talk", "fight", "use", "investigate", "unknown"}

\* the action texts and response texts _update_memory is called with
RecordActions ==
    {InGreetGuard, ExMove1}

RecordResponses ==
    {OutGuardNods, OutGuardSalutes}

\* the quest_update update_game_state is called with (None, or one entry)
QuestUpdates ==
    {<<>>, DictSet(<<>>, InFindKey, OutStarted)}

\* the texts _identify_action_type is called with
ClassifyInputs ==
    {ExMove1, ExTalk1, InXyzzy, InEmpty, InBlank, InMoveUsePotion,
     InShoutGoNorth, InFightOrTalk, InUseIt, InAskThenGo}

\* long story texts add_story_segment is called with: 100 and 96 characters
LongTexts ==
    {[i \in 1..100 |-> "a"], [i \in 1..96 |-> "b"]}

\* the num_chunks get_recent_story_chunks is called with, besides the
\* default (None: chunk_size)
ChunkCounts ==
    {0, 1, 2}

\* the filenames save_game / load_game are called with
GameFilenames ==
    {"saved_game.json"}

\* the fixed name save_game and load_game pass to the story buffer
StoryFilename ==
    "saved_story.json"

AllFilenames ==
    GameFilenames \cup {StoryFilename}

\* the filenames save_game / load_game are called with when the player
\* keeps two save slots
SlotFilenames ==
    GameFilenames \cup {"second_game.json"}

\* a file: absent, unparseable ("corrupt"), parseable but a JSON array
\* ("list"), or the JSON object json.dump wrote ("dict")
NoData ==
    [none |-> TRUE]

AbsentFile ==
    [kind |-> "absent", data |-> NoData]

DictFile(data) ==
    [kind |-> "dict", data |-> data]

DamagedKinds ==
    {"corrupt", "list"}

\* config/game_config.json when a StoryBuffer is constructed: absent,
\* unparseable, a JSON array, or a JSON object with some of the keys
ConfigFiles ==
    {AbsentFile,
     [kind |-> "corrupt", data |-> NoData],
     [kind |-> "list", data |-> NoData],
     DictFile([story_chunk_size |-> 4]),
     DictFile([context_length |-> 40, context_injection_interval |-> 2]),
     DictFile([context_length |-> 0 - 1, story_chunk_size |-> 0,
               context_injection_interval |-> 0])}

(***************************************************************************)
(* State.                                                                  *)
(***************************************************************************)
VARIABLES
    story_segments,      \* StoryBuffer.story_segments
    context_window,      \* StoryBuffer.context_window
    interaction_count,   \* StoryBuffer.interaction_count
    max_context_length,  \* StoryBuffer.max_context_length
    injection_interval,  \* StoryBuffer.injection_interval
    chunk_size,          \* StoryBuffer.chunk_size
    main_genre,          \* GameEngine.main_genre
    sub_genre,           \* GameEngine.sub_genre
    current_scene,       \* GameEngine.current_scene
    memory,              \* GameEngine.memory
    active_quests,       \* GameEngine.active_quests
    completed_quests,    \* GameEngine.completed_quests
    player_stats,        \* GameEngine.player_stats
    files,               \* the working directory: filename -> file
    last,                \* the call that produced this state and its outcome
    calls,               \* appending calls made so far in this run
    last_saved,          \* filename of the latest save_game still intact
    snap,                \* the session and the budget at that save_game
    slot_snap            \* filename -> the session at its latest save_game

vars ==
    <<story_segments, context_window, interaction_count, max_context_length,
      injection_interval, chunk_size, main_genre, sub_genre, current_scene, memory,
      active_quests, completed_quests, player_stats, files, last,
      calls, last_saved, snap, slot_snap>>

bufferVars ==
    <<story_segments, context_window, interaction_count>>

configVars ==
    <<max_context_length, injection_interval, chunk_size>>

gameVars ==
    <<main_genre, sub_genre, current_scene, memory, active_quests,
      completed_quests, player_stats>>

ghostVars ==
    <<last_saved, snap, slot_snap>>

\* the record of a call: which operation, its arguments, the exception that
\* escaped it ("none" if it returned) and the value it returned
Call(op) ==
    [op |-> op, filename |-> "", action |-> <<>>, gen |-> "",
     exc |-> "none", returned |-> FALSE, ret |-> <<>>, action_type |-> "",
     injected |-> FALSE, llm_context |-> <<>>, status |-> "",
     changed |-> FALSE, response |-> <<>>, num_chunks |-> 0,
     config_file |-> NoData]

\* the session fields a save is meant to preserve
Session ==
    [segments |-> story_segments, interaction_count |-> interaction_count,
     main_genre |-> main_genre, sub_genre |-> sub_genre,
     current_scene |-> current_scene, memory |-> memory,
     active_quests |-> active_quests, completed_quests |-> completed_quests,
     player_stats |-> player_stats]

InitialStats ==
    [health |-> 100, strength |-> 10, intelligence |-> 10, charisma |-> 10]

(***************************************************************************)
(* GameEngine.__init__ with StoryBuffer.__init__ and _initialize_story:    *)
(* the fields of a fresh engine started as s says.                         *)
(***************************************************************************)
EngineInit(s) ==
    LET cfg == s.config
        budget == DictGet(cfg, "context_length", DefaultContextLength)
        initial_scene == generate_story_continuation(s.gen)
        segs == add_story_segment(<<>>, initial_scene, "story")
    IN  [max_context_length |-> budget,
         injection_interval |->
             DictGet(cfg, "context_injection_interval",
                     DefaultInjectionInterval),
         chunk_size |-> DictGet(cfg, "story_chunk_size", DefaultChunkSize),
         story_segments |-> segs,
         context_window |-> update_context_window(segs, budget),
         interaction_count |-> 0,
         main_genre |-> s.main_genre,
         sub_genre |-> s.sub_genre,
         current_scene |-> initial_scene,
         memory |-> [key \in MEMORY_TYPES |-> <<>>],
         active_quests |-> <<>>,
         completed_quests |-> <<>>,
         player_stats |-> InitialStats]

Init ==
    /\ \E s \in Startups :
           LET e == EngineInit(s)
           IN  /\ max_context_length = e.max_context_length
               /\ injection_interval = e.injection_interval
               /\ chunk_size = e.chunk_size
               /\ story_segments = e.story_segments
               /\ context_window = e.context_window
               /\ interaction_count = e.interaction_count
               /\ main_genre = e.main_genre
               /\ sub_genre = e.sub_genre
               /\ current_scene = e.current_scene
               /\ memory = e.memory
               /\ active_quests = e.active_quests
               /\ completed_quests = e.completed_quests
               /\ player_stats = e.player_stats
    /\ files = [f \in AllFilenames \cup SlotFilenames |-> AbsentFile]
    /\ last = Call("__init__")
    /\ calls = 0
    /\ last_saved = "none"
    /\ snap = NoData
    /\ slot_snap = [f \in SlotFilenames |-> NoData]

\* the program is started again in the same working directory
NewEngine ==
    /\ \E s \in Startups :
           LET e == EngineInit(s)
           IN  /\ max_context_length' = e.max_context_length
               /\ injection_interval' = e.injection_interval
               /\ chunk_size' = e.chunk_size
               /\ story_segments' = e.story_segments
               /\ context_window' = e.context_window
               /\ interaction_count' = e.interaction_count
               /\ main_genre' = e.main_genre
               /\ sub_genre' = e.sub_genre
               /\ current_scene' = e.current_scene
               /\ memory' = e.memory
               /\ active_quests' = e.active_quests
               /\ completed_quests' = e.completed_quests
               /\ player_stats' = e.player_stats
    /\ last' = Call("__init__")
    /\ UNCHANGED <<files, calls, ghostVars>>

(***************************************************************************)
(* StoryBuffer operations called on the engine's buffer.                   *)
(***************************************************************************)
\* add_story_segment(text) with the default segment_type "story"
AddStorySegment ==
    \E text \in {OutDoor} :
        /\ calls < MaxCalls
        /\ calls' = calls + 1
        /\ story_segments' = add_story_segment(story_segments, text, "story")
        /\ context_window' =
               update_context_window(story_segments', max_context_length)
        /\ last' = Call("add_story_segment")
        /\ UNCHANGED <<interaction_count, configVars, gameVars, files,
                       ghostVars>>

ClearBuffer ==
    /\ story_segments' = <<>>
    /\ context_window' = <<>>
    /\ interaction_count' = 0
    /\ last' = Call("clear_buffer")
    /\ UNCHANGED <<configVars, gameVars, files, calls, ghostVars>>

(***************************************************************************)
(* GameEngine.generate_response: one turn.                                 *)
(***************************************************************************)
GenerateResponse ==
    \E player_action \in PlayerInputs, gen \in GenOutcomes :
      LET budget == max_context_length
          \* add_player_action
          segs1 == add_story_segment(story_segments,
                                     PlayerPrefix \o player_action,
                                     "player_action")
          count1 == add_player_action_count(interaction_count)
          \* should_inject_context raises ZeroDivisionError
          zeroDiv == injection_interval = 0
          inject == IF zeroDiv THEN FALSE
                    ELSE should_inject_context(count1, injection_interval)
          llm_context ==
              IF inject
              THEN get_context_for_llm(update_context_window(segs1, budget))
              ELSE <<>>
          action_type == identify_action_type(player_action)
          response == generate_story_continuation(gen)
          \* add_ai_response(response)
          segs2 == add_story_segment(segs1, AiPrefix \o response,
                                     "ai_response")
          \* _update_memory raises KeyError
          keyError == /\ action_type \in DOMAIN MemoryKey
                      /\ MemoryKey[action_type] \notin DOMAIN memory
          \* the except branch, entered after add_ai_response
          fallback == Fallback(action_type)
          segs3 == add_story_segment(segs2, AiPrefix \o fallback,
                                     "ai_response")
          call == [Call("generate_response") EXCEPT
                      !.action = player_action, !.gen = gen.kind]
      IN  /\ calls < MaxCalls
          /\ calls' = calls + 1
          /\ interaction_count' = count1
          /\ IF zeroDiv
             THEN \* the except branch reads action_type before it is
                  \* bound: UnboundLocalError escapes generate_response
                  /\ story_segments' = segs1
                  /\ last' = [call EXCEPT !.exc = "UnboundLocalError"]
                  /\ UNCHANGED <<current_scene, memory>>
             ELSE IF keyError
             THEN /\ story_segments' = segs3
                  /\ last' = [call EXCEPT !.returned = TRUE, !.ret = fallback,
                                          !.action_type = action_type,
                                          !.injected = inject,
                                          !.llm_context = llm_context]
                  /\ UNCHANGED <<current_scene, memory>>
             ELSE /\ story_segments' = segs2
                  /\ memory' = update_memory(memory, action_type,
                                             player_action, response)
                  /\ current_scene' = response
                  /\ last' = [call EXCEPT !.returned = TRUE, !.ret = response,
                                          !.action_type = action_type,
                                          !.injected = inject,
                                          !.llm_context = llm_context]
          /\ context_window' =
                 update_context_window(story_segments', budget)
          /\ UNCHANGED <<configVars, main_genre, sub_genre, active_quests,
                         completed_quests, player_stats, files, ghostVars>>

(***************************************************************************)
(* GameEngine.save_game with StoryBuffer.save_story.                       *)
(***************************************************************************)
\* save_game(filename)
SaveGameTo(filename) ==
    /\ files' = [files EXCEPT
           ![filename] = DictFile(GameData(main_genre, sub_genre,
                             current_scene, memory, active_quests,
                             completed_quests, player_stats)),
           ![StoryFilename] = DictFile(StoryData(story_segments,
                                           interaction_count))]
    /\ last' = [Call("save_game") EXCEPT !.filename = filename]
    /\ last_saved' = filename
    /\ snap' = [session |-> Session, budget |-> max_context_length]
    /\ slot_snap' = [slot_snap EXCEPT ![filename] = Session]
    /\ UNCHANGED <<bufferVars, configVars, gameVars, calls>>

SaveGame ==
    \E filename \in GameFilenames : SaveGameTo(filename)

(***************************************************************************)
(* GameEngine.load_game with StoryBuffer.load_story.                       *)
(***************************************************************************)
\* faulty variant of load_story: the window is not recomputed
LoadStory_keep_window(call) ==
    LET file == files[StoryFilename]
        story_data == file.data
    IN  IF file.kind # "dict"
        THEN /\ UNCHANGED bufferVars
             /\ last' = [call EXCEPT !.status = "story_" \o file.kind]
        ELSE /\ story_segments' = DictGet(story_data, "segments", <<>>)
             /\ interaction_count' =
                    DictGet(story_data, "interaction_count", 0)
             /\ UNCHANGED context_window
             /\ last' = [call EXCEPT !.status = "ok"]

\* load_story(StoryFilename); status is what the call did
LoadStory(call) ==
    LET file == files[StoryFilename]
        story_data == file.data
    IN  IF file.kind = "absent"
        THEN \* FileNotFoundError, caught in load_story
             /\ UNCHANGED bufferVars
             /\ last' = [call EXCEPT !.status = "story_missing"]
        ELSE IF file.kind = "corrupt"
        THEN \* json.JSONDecodeError, caught in load_story
             /\ UNCHANGED bufferVars
             /\ last' = [call EXCEPT !.status = "story_corrupt"]
        ELSE IF file.kind = "list"
        THEN \* story_data.get raises AttributeError, caught nowhere
             /\ UNCHANGED bufferVars
             /\ last' = [call EXCEPT !.status = "story_shape",
                                     !.exc = "AttributeError"]
        ELSE /\ story_segments' = DictGet(story_data, "segments", <<>>)
             /\ interaction_count' =
                    DictGet(story_data, "interaction_count", 0)
             /\ context_window' =
                    update_context_window(story_segments',
                                          max_context_length)
             /\ last' = [call EXCEPT !.status = "ok"]

\* load_game(filename)
LoadGameFrom(filename) ==
    LET file == files[filename]
        game_data == file.data
        call == [Call("load_game") EXCEPT
                    !.filename = filename,
                    !.changed = <<bufferVars, gameVars>>' #
                                <<bufferVars, gameVars>>]
    IN  /\ IF file.kind = "absent"
           THEN \* FileNotFoundError, caught in load_game
                /\ UNCHANGED <<bufferVars, gameVars>>
                /\ last' = [call EXCEPT !.status = "game_missing"]
           ELSE IF file.kind = "corrupt"
           THEN \* json.JSONDecodeError, caught in load_game
                /\ UNCHANGED <<bufferVars, gameVars>>
                /\ last' = [call EXCEPT !.status = "game_corrupt"]
           ELSE IF file.kind = "list"
           THEN \* game_data.get raises AttributeError, caught nowhere
                /\ UNCHANGED <<bufferVars, gameVars>>
                /\ last' = [call EXCEPT !.status = "game_shape",
                                        !.exc = "AttributeError"]
           ELSE /\ main_genre' =
                       DictGet(game_data, "main_genre", main_genre)
                /\ sub_genre' = DictGet(game_data, "sub_genre", sub_genre)
                /\ current_scene' =
                       DictGet(game_data, "current_scene", current_scene)
                /\ memory' = DictGet(game_data, "memory", memory)
                /\ active_quests' =
                       DictGet(game_data, "active_quests", active_quests)
                /\ completed_quests' =
                       DictGet(game_data, "completed_quests",
                               completed_quests)
                /\ player_stats' =
                       DictGet(game_data, "player_stats", player_stats)
                /\ LoadStory(call)
        /\ UNCHANGED <<configVars, files, calls, ghostVars>>

LoadGame ==
    \E filename \in GameFilenames : LoadGameFrom(filename)

(***************************************************************************)
(* The environment: a file of the working directory is removed or          *)
(* overwritten from outside the program.                                   *)
(***************************************************************************)
ForgetSave(f) ==
    IF f = StoryFilename \/ f = last_saved
    THEN /\ last_saved' = "none"
         /\ snap' = NoData
         /\ slot_snap' = [g \in SlotFilenames |-> NoData]
    ELSE UNCHANGED ghostVars

RemoveFile ==
    \E f \in AllFilenames :
        /\ files[f].kind # "absent"
        /\ files' = [files EXCEPT ![f] = AbsentFile]
        /\ last' = Call("remove_file")
        /\ ForgetSave(f)
        /\ UNCHANGED <<bufferVars, configVars, gameVars, calls>>

DamageFile ==
    \E f \in AllFilenames, kind \in DamagedKinds :
        /\ files[f].kind # kind
        /\ files' = [files EXCEPT ![f] = [kind |-> kind, data |-> NoData]]
        /\ last' = Call("damage_file")
        /\ ForgetSave(f)
        /\ UNCHANGED <<bufferVars, configVars, gameVars, calls>>

\* the program, started any number of times, on files only it writes
Next ==
    \/ NewEngine
    \/ AddStorySegment
    \/ ClearBuffer
    \/ GenerateResponse
    \/ SaveGame
    \/ LoadGame

Spec ==
    Init /\ [][Next]_vars

\* one run of the program in a working directory that is also written from
\* outside
NextEnv ==
    \/ AddStorySegment
    \/ ClearBuffer
    \/ GenerateResponse
    \/ SaveGame
    \/ LoadGame
    \/ RemoveFile
    \/ DamageFile

SpecEnv ==
    Init /\ [][NextEnv]_vars

(***************************************************************************)
(* GameEngine._update_memory and GameEngine.update_game_state, called on   *)
(* the engine.                                                             *)
(***************************************************************************)
UpdateMemory ==
    \E action_type \in ActionTypes, action \in RecordActions,
       response \in RecordResponses :
      LET \* self.memory[...] raises KeyError
          keyError == /\ action_type \in DOMAIN MemoryKey
                      /\ MemoryKey[action_type] \notin DOMAIN memory
          call == [Call("_update_memory") EXCEPT
                      !.action_type = action_type, !.action = action,
                      !.response = response,
                      !.changed = memory' # memory]
      IN  /\ IF keyError
             THEN /\ UNCHANGED memory
                  /\ last' = [call EXCEPT !.exc = "KeyError"]
             ELSE /\ memory' = update_memory(memory, action_type, action,
                                             response)
                  /\ last' = [call EXCEPT !.returned = TRUE]
          /\ UNCHANGED <<bufferVars, configVars, main_genre, sub_genre,
                         current_scene, active_quests, completed_quests,
                         player_stats, files, calls, ghostVars>>

UpdateGameState ==
    \E new_scene \in {OutDoor}, quest_update \in QuestUpdates :
      LET call == [Call("update_game_state") EXCEPT
                      !.changed = memory' # memory]
      IN  /\ current_scene' = new_scene
          /\ IF quest_update = <<>>
             THEN /\ UNCHANGED memory
                  /\ last' = [call EXCEPT !.returned = TRUE]
             ELSE IF "quest_progress" \notin DOMAIN memory
             THEN /\ UNCHANGED memory
                  /\ last' = [call EXCEPT !.exc = "KeyError"]
             ELSE /\ memory' = [memory EXCEPT !["quest_progress"] =
                                    DictUpdate(@, quest_update)]
                  /\ last' = [call EXCEPT !.returned = TRUE]
          /\ UNCHANGED <<bufferVars, configVars, main_genre, sub_genre,
                         active_quests, completed_quests, player_stats,
                         files, calls, ghostVars>>

\* the memory store of one engine under direct calls
NextMemory ==
    \/ UpdateMemory
    \/ UpdateGameState

SpecMemory ==
    Init /\ [][NextMemory]_vars

(***************************************************************************)
(* GameEngine._identify_action_type called on the engine, and the          *)
(* construction of the engine's StoryBuffer over a given config file.      *)
(***************************************************************************)
IdentifyActionType ==
    \E player_action \in ClassifyInputs :
        /\ last' = [Call("_identify_action_type") EXCEPT
                       !.action = player_action,
                       !.action_type = identify_action_type(player_action),
                       !.returned = TRUE]
        /\ UNCHANGED <<bufferVars, configVars, gameVars, files, calls,
                       ghostVars>>

\* self.story_buffer = StoryBuffer()
StoryBufferInit ==
    \E file \in ConfigFiles :
      LET call == [Call("StoryBuffer.__init__") EXCEPT !.config_file = file]
          config == load_config(file)
      IN  /\ IF file.kind = "corrupt"
             THEN \* json.JSONDecodeError, not caught by _load_config
                  /\ UNCHANGED <<bufferVars, configVars>>
                  /\ last' = [call EXCEPT !.exc = "JSONDecodeError"]
             ELSE IF file.kind = "list"
             THEN \* self.config.get raises AttributeError
                  /\ UNCHANGED <<bufferVars, configVars>>
                  /\ last' = [call EXCEPT !.exc = "AttributeError"]
             ELSE /\ story_segments' = <<>>
                  /\ context_window' = <<>>
                  /\ interaction_count' = 0
                  /\ max_context_length' =
                         DictGet(config, "context_length",
                                 DefaultContextLength)
                  /\ chunk_size' =
                         DictGet(config, "story_chunk_size", DefaultChunkSize)
                  /\ injection_interval' =
                         DictGet(config, "context_injection_interval",
                                 DefaultInjectionInterval)
                  /\ last' = [call EXCEPT !.returned = TRUE]
          /\ UNCHANGED <<gameVars, files, calls, ghostVars>>

\* the classifier and the buffer construction of one engine under direct
\* calls
NextParts ==
    \/ IdentifyActionType
    \/ StoryBufferInit

SpecParts ==
    Init /\ [][NextParts]_vars

(***************************************************************************)
(* The StoryBuffer of one engine under direct appends and queries.         *)
(***************************************************************************)
\* add_story_segment(text) with a long text
AddLongStorySegment ==
    \E text \in LongTexts :
        /\ Len(story_segments) < MaxLog
        /\ story_segments' = add_story_segment(story_segments, text, "story")
        /\ context_window' =
               update_context_window(story_segments', max_context_length)
        /\ last' = Call("add_story_segment")
        /\ UNCHANGED <<interaction_count, configVars, gameVars, files, calls,
                       ghostVars>>

AddPlayerAction ==
    \E action \in {ExMove1} :
        /\ Len(story_segments) < MaxLog
        /\ story_segments' = add_story_segment(story_segments,
                                               PlayerPrefix \o action,
                                               "player_action")
        /\ context_window' =
               update_context_window(story_segments', max_context_length)
        /\ interaction_count' = add_player_action_count(interaction_count)
        /\ last' = [Call("add_player_action") EXCEPT !.action = action]
        /\ UNCHANGED <<configVars, gameVars, files, calls, ghostVars>>

GetStorySummary ==
    /\ last' = [Call("get_story_summary") EXCEPT
                   !.returned = TRUE,
                   !.ret = get_story_summary(story_segments)]
    /\ UNCHANGED <<bufferVars, configVars, gameVars, files, calls,
                   ghostVars>>

GetRecentStoryChunks ==
    \E num_chunks \in ChunkCounts \cup {chunk_size} :
        /\ last' = [Call("get_recent_story_chunks") EXCEPT
                       !.num_chunks = num_chunks,
                       !.returned = TRUE,
                       !.ret = get_recent_story_chunks(story_segments,
                                                       num_chunks)]
        /\ UNCHANGED <<bufferVars, configVars, gameVars, files, calls,
                       ghostVars>>

NextBuffer ==
    \/ AddLongStorySegment
    \/ AddPlayerAction
    \/ GetStorySummary
    \/ GetRecentStoryChunks

SpecBuffer ==
    Init /\ [][NextBuffer]_vars

(***************************************************************************)
(* One run of the program whose player keeps two save slots.               *)
(***************************************************************************)
SaveGameSlot ==
    \E filename \in SlotFilenames : SaveGameTo(filename)

LoadGameSlot ==
    \E filename \in SlotFilenames : LoadGameFrom(filename)

NextSlots ==
    \/ GenerateResponse
    \/ SaveGameSlot
    \/ LoadGameSlot

SpecSlots ==
    Init /\ [][NextSlots]_vars

(***************************************************************************)
(* Properties.                                                             *)
(***************************************************************************)
\* sum of len(seg["text"]) over the segments of a list
RECURSIVE TotalLength(_)
TotalLength(segs) ==
    IF Len(segs) = 0 THEN 0
    ELSE Len(segs[1].text) + TotalLength(Tail(segs))

\* window is the suffix of segs, oldest first, that fits the budget and
\* cannot take the next older segment
IsTightSuffix(window, segs, budget) ==
    LET n == Len(segs)
        k == Len(window)
    IN  /\ k <= n
        /\ window = SubSeq(segs, n - k + 1, n)
        /\ TotalLength(window) <= budget
        /\ \/ k = n
           \/ TotalLength(window) + Len(segs[n - k].text) > budget

IsPrefix(s, t) ==
    /\ Len(s) <= Len(t)
    /\ s = SubSeq(t, 1, Len(s))

\* the step is a call of generate_response
TurnStep ==
    last'.op = "generate_response" /\ calls' = calls + 1

\* the step is a call of load_game
LoadStep ==
    last'.op = "load_game" /\ UNCHANGED <<files, calls>>

\* C1: in every state the context window is a contiguous suffix of the log
\* in oldest-first order whose total text length is at most
\* max_context_length, and it is tight: it is the whole log or the next
\* older segment would make the total exceed the budget.
C1_WindowIsTightSuffix ==
    IsTightSuffix(context_window, story_segments, max_context_length)

\* a turn has left a window that is a proper, non-empty suffix of the log
C1_Witness ==
    /\ last.op = "generate_response"
    /\ Len(context_window) > 0
    /\ Len(context_window) < Len(story_segments)

\* C2: for every interval N >= 1, should_inject_context() is false at
\* counter 0 and true exactly at the counters N, 2N, 3N, ...
C2_InjectExactlyAtPositiveMultiples ==
    injection_interval >= 1 =>
        (should_inject_context(interaction_count, injection_interval)
            <=> /\ interaction_count > 0
                /\ interaction_count % injection_interval = 0)

\* C3: every call of generate_response appends exactly one player_action
\* segment followed by exactly one ai_response segment and nothing else.
C3_TurnAppendsPlayerThenAi ==
    [][TurnStep =>
          LET n == Len(story_segments)
          IN  /\ Len(story_segments') = n + 2
              /\ IsPrefix(story_segments, story_segments')
              /\ story_segments'[n + 1].type = "player_action"
              /\ story_segments'[n + 2].type = "ai_response"]_vars

\* C4: when the backend fails during a turn (timeout or backend error), the
\* text the turn returns is the fixed fallback text of the turn's action
\* type, whatever the kind of failure.
C4_FailureGivesActionFallback ==
    (/\ last.op = "generate_response"
     /\ last.returned
     /\ last.gen \in {"nonzero", "timeout", "error"})
        => /\ last.ret = Fallback(last.action_type)
           /\ Len(last.ret) > 0

\* C5: a load_game that reads the record written by the latest save_game
\* leaves the session (log, interaction counter, memory, player stats,
\* quest lists, genre selectors, current scene) as it was at that save.
C5_LoadRestoresSavedSession ==
    (/\ last.op = "load_game"
     /\ last.status = "ok"
     /\ last.filename = last_saved)
        => Session = snap.session

\* such a load has replaced a session that had moved on since the save
C5_Witness ==
    /\ last.op = "load_game"
    /\ last.status = "ok"
    /\ last.filename = last_saved
    /\ last.changed
    /\ Len(story_segments) >= 3

\* C6: after every successful load the context window is the one recomputed
\* from the restored log with the loading engine's budget: the tight suffix
\* for max_context_length, whatever the budget was at the save.
C6_LoadRecomputesWindow ==
    (last.op = "load_game" /\ last.status = "ok")
        => /\ context_window =
                  update_context_window(story_segments, max_context_length)
           /\ IsTightSuffix(context_window, story_segments,
                            max_context_length)

\* a load under a smaller budget than at the save cut the restored log
C6_Witness ==
    /\ last.op = "load_game"
    /\ last.status = "ok"
    /\ last.filename = last_saved
    /\ snap.budget > max_context_length
    /\ TotalLength(story_segments) <= snap.budget
    /\ Len(context_window) < Len(story_segments)

\* C7: load_game when the game file or the story file does not exist (and
\* the other, if present, is a record save_game wrote) is a no-op: no
\* exception escapes and no session field changes.
C7_MissingRecordIsNoOp ==
    [][(/\ LoadStep
        /\ files[last'.filename].kind \in {"absent", "dict"}
        /\ files[StoryFilename].kind \in {"absent", "dict"}
        /\ \/ files[last'.filename].kind = "absent"
           \/ files[StoryFilename].kind = "absent")
          => /\ last'.exc = "none"
             /\ UNCHANGED <<bufferVars, gameVars>>]_vars

\* C8: load_game on a malformed record (the game file or the story file is
\* unparseable or of the wrong shape) rejects the load as a whole: no
\* exception escapes and the prior session state is retained.
C8_MalformedRecordIsRejected ==
    [][(/\ LoadStep
        /\ \/ files[last'.filename].kind \in DamagedKinds
           \/ /\ files[last'.filename].kind = "dict"
              /\ files[StoryFilename].kind \in DamagedKinds)
          => /\ last'.exc = "none"
             /\ UNCHANGED <<bufferVars, gameVars>>]_vars

\* the step is a successful load, which replaces the log wholesale
SuccessfulLoadStep ==
    LoadStep /\ last'.status = "ok"

\* the step starts the program again: a new engine with a new log
RestartStep ==
    last'.op = "__init__"

C10_TimestampIsPosition ==
    \A i \in 1..Len(story_segments) :
        story_segments[i].timestamp = i - 1

\* appends after clear_buffer: the log starts with a player action
C10_Witness ==
    /\ last.op = "generate_response"
    /\ Len(story_segments) >= 2
    /\ story_segments[1].type = "player_action"

\* the number of player_action segments of a log
NumPlayerActions(segs) ==
    Cardinality({i \in 1..Len(segs) : segs[i].type = "player_action"})

\* the step is a call of add_story_segment
AppendStoryStep ==
    last'.op = "add_story_segment" /\ calls' = calls + 1

\* C11: the interaction counter is 0 at session start, a turn (one
\* PlayerAction append and one AiResponse append) raises it by exactly 1, a
\* Story append leaves it unchanged, and in every state it equals the
\* number of player_action segments of the log.
C11_CounterCountsPlayerActions ==
    /\ [](last.op = "__init__" => interaction_count = 0)
    /\ [](interaction_count = NumPlayerActions(story_segments))
    /\ [][TurnStep => interaction_count' = interaction_count + 1]_vars
    /\ [][AppendStoryStep => UNCHANGED interaction_count]_vars

\* a load has brought back a log with two player actions
C11_Witness ==
    /\ last.op = "load_game"
    /\ last.status = "ok"
    /\ last.changed
    /\ interaction_count = 2
    /\ NumPlayerActions(story_segments) = 2

\* the log as it was when the turn that ended in this state took its
\* injection decision: up to and including the newest player_action segment
LogAtDecision ==
    LET idx == {i \in 1..Len(story_segments) :
                   story_segments[i].type = "player_action"}
        newest == CHOOSE i \in idx : \A j \in idx : j <= i
    IN  IF idx = {} THEN <<>> ELSE SubSeq(story_segments, 1, newest)

\* C12: in a turn that reaches the generation call, the decision is taken
\* at the incremented counter k >= 1; the context passed to the generation
\* call is the formatted context window if k is a multiple of the injection
\* interval, and the empty string otherwise.
C12_InjectionAtMultiplesOfInterval ==
    (last.op = "generate_response" /\ last.returned) =>
        LET k == interaction_count
            due == k % injection_interval = 0
        IN  /\ k >= 1
            /\ last.injected <=> due
            /\ last.llm_context =
                   IF due
                   THEN get_context_for_llm(
                            update_context_window(LogAtDecision,
                                                  max_context_length))
                   ELSE <<>>

\* the second turn of a session with interval 2 has passed a context
C12_Witness ==
    /\ last.op = "generate_response"
    /\ last.returned
    /\ injection_interval = 2
    /\ interaction_count = 2
    /\ last.injected
    /\ Len(last.llm_context) > 0

\* the step is a call of _update_memory
RecordStep ==
    last'.op = "_update_memory"

\* the category each recording action type writes
RecordTable ==
    [talk |-> "npc_interactions", move |-> "location_discovery",
     use |-> "item_usage", investigate |-> "clues_found"]

\* C13: _update_memory(actionType, actionText, responseText) completes
\* without error and leaves actionText -> responseText in the category of
\* the table for talk, move, use and investigate; for fight and unknown it
\* completes and memory is unchanged.
C13_RecordWritesTableCategory ==
    last.op = "_update_memory" =>
        /\ last.exc = "none"
        /\ IF last.action_type \in DOMAIN RecordTable
           THEN LET category == RecordTable[last.action_type]
                IN  /\ category \in DOMAIN memory
                    /\ last.action \in DOMAIN memory[category]
                    /\ memory[category][last.action] = last.response
           ELSE ~last.changed

\* C14: a call of _update_memory that returns for a recording action type
\* leaves the response text under the action text in the type's category,
\* over any earlier entry; every call of _update_memory leaves the set of
\* categories, every other category and every other action text's entry
\* unchanged.
C14_LastWriteWinsWithFrame ==
    [][RecordStep =>
          LET written == IF last'.action_type \in DOMAIN RecordTable
                         THEN {<<RecordTable[last'.action_type],
                                 last'.action>>}
                         ELSE {}
          IN  /\ \A w \in written :
                     last'.returned =>
                         /\ w[1] \in DOMAIN memory'
                         /\ w[2] \in DOMAIN memory'[w[1]]
                         /\ memory'[w[1]][w[2]] = last'.response
              /\ DOMAIN memory' = DOMAIN memory
              /\ \A c \in DOMAIN memory :
                     \A a \in (DOMAIN memory[c]) \cup (DOMAIN memory'[c]) :
                         <<c, a>> \notin written =>
                             /\ a \in DOMAIN memory[c]
                             /\ a \in DOMAIN memory'[c]
                             /\ memory'[c][a] = memory[c][a]]_vars

\* a later call has overwritten the entry of "greet guard" while the entry
\* of another action text and another category's entry stayed
C14_Witness ==
    /\ last.op = "_update_memory"
    /\ last.action_type = "talk"
    /\ last.action = InGreetGuard
    /\ last.response = OutGuardSalutes
    /\ last.changed
    /\ memory["npc_interactions"] =
           DictSet(DictSet(<<>>, InGreetGuard, OutGuardSalutes),
                   ExMove1, OutGuardNods)
    /\ memory["location_discovery"] = DictSet(<<>>, ExMove1, OutGuardNods)

\* C15: in every state the set of memory categories is exactly
\* npc_interactions, location_discovery, item_usage, clues_found,
\* quest_progress, story_progress.
C15_CategorySetIsClosed ==
    DOMAIN memory = {"npc_interactions", "location_discovery", "item_usage",
                     "clues_found", "quest_progress", "story_progress"}

\* the positions in MechanicOrder of the types with an example phrase
\* contained in the lowered input
ExampleMatches(input) ==
    {i \in 1..Len(MechanicOrder) :
        \E k \in 1..Len(CORE_MECHANICS[MechanicOrder[i]]) :
            StrIn(CORE_MECHANICS[MechanicOrder[i]][k], Lower(input))}

\* the positions in MechanicOrder of the types whose keyword is contained
\* in the lowered input
KeywordMatches(input) ==
    {i \in 1..Len(MechanicOrder) :
        StrIn(MechanicKeyword[MechanicOrder[i]], Lower(input))}

Least(S) ==
    CHOOSE i \in S : \A j \in S : i <= j

\* the type the two-pass rule gives
Classified(input) ==
    IF ExampleMatches(input) # {}
    THEN MechanicOrder[Least(ExampleMatches(input))]
    ELSE IF KeywordMatches(input) # {}
    THEN MechanicOrder[Least(KeywordMatches(input))]
    ELSE "unknown"

\* C16: _identify_action_type returns the first type in priority order
\* with an example phrase contained in the lowered input; if there is none,
\* the first type in priority order whose keyword is contained in it;
\* otherwise unknown.  "go north" is move, "speak to the merchant" is talk,
\* "xyzzy", the empty text and a blank text are unknown, and an example of a
\* lower-priority type beats a keyword of a higher-priority type.
C16_ClassifyIsTwoPassByPriority ==
    last.op = "_identify_action_type" =>
        /\ last.action_type = Classified(last.action)
        /\ last.action = ExMove1 => last.action_type = "move"
        /\ last.action = ExTalk1 => last.action_type = "talk"
        /\ last.action \in {InXyzzy, InEmpty, InBlank} =>
               last.action_type = "unknown"
        /\ last.action = InMoveUsePotion => last.action_type = "use"
        /\ last.action = InShoutGoNorth => last.action_type = "move"

\* an input with the keyword of the first type and an example phrase of
\* the last type has been classified
C16_Witness ==
    /\ last.op = "_identify_action_type"
    /\ last.action = InMoveUsePotion
    /\ 1 \in KeywordMatches(last.action)
    /\ ExampleMatches(last.action) = {4}
    /\ last.action_type = "use"

\* the value a configuration key takes: the file's value if the file is a
\* JSON object holding a positive integer under the key, the default
\* otherwise
Configured(file, key, default) ==
    IF /\ file.kind = "dict"
       /\ key \in DOMAIN file.data
       /\ file.data[key] >= 1
    THEN file.data[key]
    ELSE default

\* C19: whatever the config file holds, constructing the buffer raises no
\* exception, and context budget, injection interval and chunk size each
\* take the file's value when it is present and valid and the default
\* (1024, 5, 3) otherwise.
C19_ConfigNeverFailsAndDefaults ==
    last.op = "StoryBuffer.__init__" =>
        /\ last.exc = "none"
        /\ max_context_length =
               Configured(last.config_file, "context_length", 1024)
        /\ injection_interval =
               Configured(last.config_file, "context_injection_interval", 5)
        /\ chunk_size =
               Configured(last.config_file, "story_chunk_size", 3)

\* C20: every call of generate_response returns a non-empty text and no
\* exception escapes it.
C20_TurnAlwaysCompletes ==
    last.op = "generate_response" =>
        /\ last.exc = "none"
        /\ last.returned
        /\ Len(last.ret) > 0

IsStory(seg) ==
    seg.type = "story"

\* the texts of the last min(n, story-count) story segments of the log,
\* oldest first
LastStoryTexts(n) ==
    LET stories == SelectSeq(story_segments, IsStory)
        m == IF n < Len(stories) THEN n ELSE Len(stories)
    IN  [i \in 1..m |-> stories[Len(stories) - m + i].text]

\* C17: for a log with at least one story segment, get_story_summary()
\* has at most 503 characters; it is the single-space join of the texts of
\* the last min(5, story-count) story segments when that join has at most
\* 500 characters, and the first 500 characters of the join followed by
\* "..." otherwise; player_action and ai_response segments do not
\* contribute.
C17_SummaryIsCappedJoin ==
    (/\ last.op = "get_story_summary"
     /\ \E i \in 1..Len(story_segments) : IsStory(story_segments[i]))
        => LET joined == Join(<<" ">>, LastStoryTexts(5))
           IN  /\ Len(last.ret) <= 503
               /\ Len(joined) <= 500 => last.ret = joined
               /\ Len(joined) > 500 =>
                      last.ret = SubSeq(joined, 1, 500) \o <<".", ".", ".">>

\* a summary has been cut while a player action lies among the last five
\* story segments
C17_Witness ==
    /\ last.op = "get_story_summary"
    /\ Len(last.ret) = 503
    /\ Len(Join(<<" ">>, LastStoryTexts(5))) = 504
    /\ story_segments[Len(story_segments) - 1].type = "player_action"

\* C18: get_recent_story_chunks(n) returns the texts of the last
\* min(n, story-count) story segments, oldest first (none for n = 0).
C18_RecentChunksAreLastN ==
    last.op = "get_recent_story_chunks" =>
        last.ret = LastStoryTexts(last.num_chunks)

\* C21: a load_game(f) that reads the game file written by the latest
\* save_game(f) restores the log and the interaction counter as they were
\* at that save_game(f), like the scene, memory and stats it restores from
\* f, whatever was saved under other filenames in between.
C21_SlotsAreIndependent ==
    (/\ last.op = "load_game"
     /\ last.status = "ok"
     /\ slot_snap[last.filename] # NoData)
        => /\ current_scene = slot_snap[last.filename].current_scene
           /\ memory = slot_snap[last.filename].memory
           /\ player_stats = slot_snap[last.filename].player_stats
           /\ story_segments = slot_snap[last.filename].segments
           /\ interaction_count =
                  slot_snap[last.filename].interaction_count

\* C22: after every call of generate_response that returns, current_scene
\* is the returned text, the newest segment of the log is an ai_response
\* whose text is the returned text, and for the action types talk, move,
\* use and investigate the memory entry of the action text is the returned
\* text.
C22_TurnViewsAgree ==
    (last.op = "generate_response" /\ last.returned) =>
        LET newest == story_segments[Len(story_segments)]
        IN  /\ current_scene = last.ret
            /\ newest.type = "ai_response"
            /\ newest.text = last.ret
            /\ last.action_type \in DOMAIN RecordTable =>
                   /\ RecordTable[last.action_type] \in DOMAIN memory
                   /\ last.action \in
                          DOMAIN memory[RecordTable[last.action_type]]
                   /\ memory[RecordTable[last.action_type]][last.action]
                          = last.ret

====
